---- MODULE Spec2Model ----
(***************************************************************************)
(* A model of the gravity solver of n-body-rust: the ObjectBuffer facade   *)
(* (sim/direct.rs), the Direct evaluator and the integrator with their     *)
(* rayon fork/join work split, and the Barnes-Hut octree (sim/barnes_hut). *)
(*                                                                         *)
(* Numbers.  The program computes in f64.  The model computes in fixed     *)
(* point: a length is an integer number of tenths (the padding 0.1 of      *)
(* build_tree is PAD = 1), a division rounds toward zero, a square root    *)
(* rounds down.  G and COLLISION_EPSILON are the program's constants       *)
(* expressed in the model's units (COLLISION_EPSILON is the smallest       *)
(* positive denominator).  A vector carries a flag nan: the value an f64   *)
(* vector has after 0.0 / 0.0.                                             *)
(***************************************************************************)
EXTENDS Integers, Sequences, FiniteSets, TLC

\* ---------------------------------------------------------------- bounds
MaxBodies == 4
MaxSteps == 2
MaxDelta == 1
\* The deepest octree node construct_rec may subdivide.
MaxDepth == 3
\* The values of run_sim_loop's counter a behaviour is followed for.
MaxTicks == 1000
\* The released-to-pressed transitions a key is followed for.
MaxPresses == 2
\* The most objects the graphics hold.
MaxFocus == 3
\* The push_items calls a trail is followed for.
MaxPushes == 7

\* ------------------------------------------------------ program constants
\* constants.rs:17 and :19, scaled down so that a handful of bodies is split
\* over several chunks (the program's values are 20 and 2000).
MAX_THREADS == 3
OBJECTS_PER_THREAD == 1
\* objects.rs:10, scaled down so that a few batches wrap the trail (the
\* program's value is 60 * 60 * 2).
TRAIL_MAX_LENGTH == 3
\* constants.rs:9 and :13 in model units.
G == 500
\* barnes_hut/tree.rs:134, the padding 0.1, in tenths.
PAD == 1
COLLISION_EPSILON == 1

VARIABLES
    objects,        \* ObjectBuffer.objects: Seq of [pos, vel, mass]
    out_buffer,     \* ObjectBuffer.out_buffer: Seq of vectors
    per_thread,     \* ObjectBuffer.per_thread
    pool,           \* ObjectBuffer.pool: its num_threads, 0 while there is none
    pc,             \* where exec_iter is: idle, force, integrate
    delta,          \* the delta of the exec_iter call in progress
    calls,          \* exec_iter_rec / add_acc_rec calls forked and not yet run
    tasks,          \* leaf tasks (iter_chunk / add_acc) with their loop position
    steps,          \* completed exec_iter calls
    use_barnes_hut, \* the constant USE_BARNES_HUT the build was made with
    theta,          \* barnes_hut::iter's theta, in tenths
    mantissa,       \* significant bits of a region bound; 0: enough for every sum
    nodes,          \* FmmTree.nodes: Seq of FmmNode, NodeId(k) is nodes[k + 1]
    stack,          \* the construct_rec calls in progress, innermost last
    trav,           \* iter's loop: the body i and compute_acc's stack
    objects0,       \* history: objects when the current exec_iter began
    acc_done,       \* history: out_buffer when force evaluation was joined
    applied,        \* history: per body, the interactions added to out[i] this step
    loop_pc,        \* where run_sim_loop is: none (no loop), top, step, check, exited
    tick,           \* run_sim_loop's counter i
    token,          \* the shutdown flag shared with the main thread
    should_sample,  \* BatchRequest.should_sample
    last_read,      \* history: what run_sim_loop last read from token
    read_ticks,     \* history: the values of i at which token was read
    sample_data,    \* BatchRequest.sample: per body the position stored, and
                    \* (history) the tick of the store that wrote it
    simulation_tick, \* BatchRequest.simulation_tick
    lock,           \* who holds the Mutex of BatchRequest.sample: none, sim, render
    store_idx,      \* store's loop: the slots written so far
    render_pc,      \* the graphics thread: idle, pushed (inside sample), sampled
    got,            \* what the last push_items of sample was given
    seen_tick,      \* what current_ticks returned for this redraw, -1: not called
    since,          \* history: should_store calls that returned true since the
                    \* last sample (or since new)
    passed,         \* history: check points the loop went through with the
                    \* token set
    keyboard_state, \* KeyboardState: per KeyTrigger key its pressed and trigger
    focus,          \* Camera.focus: -1 for None, else the object followed
    held,           \* history: per key, whether the last event said pressed
    presses,        \* history: per key, the released-to-pressed transitions
    fired,          \* history: per key, the get_trigger calls that returned true
    buff,           \* ObjectVertexCache.buff: Seq of [pos, idx], slot k is buff[k + 1]
    num_objects,    \* ObjectVertexCache.num_objects
    head,           \* ObjectVertexCache.head
    tail,           \* ObjectVertexCache.tail
    pending_head,   \* ObjectVertexCache.pending_head
    pending_tail,   \* ObjectVertexCache.pending_tail
    gpu_buffer,     \* the vertex Buffer that flush_to_buffer writes to
    pushes,         \* history: the push_items calls made
    last_batch      \* history: the batch of the last push_items, <<>> when
                    \* none followed the last clear

vars == <<objects, out_buffer, per_thread, pool, pc, delta, calls, tasks, steps,
          use_barnes_hut, theta, mantissa, nodes, stack, trav, objects0, acc_done,
          applied,
          loop_pc, tick, token, should_sample, last_read, read_ticks,
          sample_data, simulation_tick, lock, store_idx, render_pc, got,
          seen_tick, since, passed,
          keyboard_state, focus, held, presses, fired,
          buff, num_objects, head, tail, pending_head, pending_tail, gpu_buffer,
          pushes, last_batch>>

build_vars == <<use_barnes_hut, theta, pool, mantissa>>
loop_vars == <<loop_pc, tick, token, should_sample, last_read, read_ticks>>
exchange_vars == <<sample_data, simulation_tick, lock, store_idx, render_pc, got,
                  seen_tick, since, passed>>
cache_vars == <<buff, num_objects, head, tail, pending_head, pending_tail,
               gpu_buffer, pushes, last_batch>>
graphics_vars == <<keyboard_state, focus, held, presses, fired, cache_vars>>
sim_vars == <<build_vars, loop_vars, exchange_vars, graphics_vars>>
tree_vars == <<nodes, stack, trav>>

\* ------------------------------------------------------------ f64 vectors
Vec(x, y, z) == [x |-> x, y |-> y, z |-> z, nan |-> FALSE]
NaNVec == [x |-> 0, y |-> 0, z |-> 0, nan |-> TRUE]
ZeroVec == Vec(0, 0, 0)

VAdd(a, b) == IF a.nan \/ b.nan THEN NaNVec ELSE Vec(a.x + b.x, a.y + b.y, a.z + b.z)
VSub(a, b) == IF a.nan \/ b.nan THEN NaNVec ELSE Vec(a.x - b.x, a.y - b.y, a.z - b.z)
VScale(a, k) == IF a.nan THEN NaNVec ELSE Vec(a.x * k, a.y * k, a.z * k)

\* f64 division of a finite number, rounded toward zero; d > 0.
TruncDiv(a, d) == IF a >= 0 THEN a \div d ELSE 0 - ((0 - a) \div d)

\* v / d for a vector of finite or NaN components: 0/0 is NaN.
VDiv(a, d) ==
    IF a.nan THEN NaNVec
    ELSE IF d = 0 THEN NaNVec
    ELSE Vec(TruncDiv(a.x, d), TruncDiv(a.y, d), TruncDiv(a.z, d))

Magnitude2(a) == a.x * a.x + a.y * a.y + a.z * a.z

RECURSIVE SqrtSearch(_, _, _)
SqrtSearch(m, lo, hi) ==
    IF lo >= hi THEN lo
    ELSE LET mid == (lo + hi + 1) \div 2
         IN IF mid * mid <= m THEN SqrtSearch(m, mid, hi)
                              ELSE SqrtSearch(m, lo, mid - 1)

Sqrt(m) == SqrtSearch(m, 0, IF m > 46340 THEN 46340 ELSE m)

Magnitude(a) == Sqrt(Magnitude2(a))

\* ------------------------------------------------------------- ObjectInfo
ObjectInfo(p, v, m) == [pos |-> p, vel |-> v, mass |-> m]

\* ObjectInfo::get_acc_towards: the new value of *out. The quotient of a
\* pair further apart than Reach is below one unit in every component and
\* rounds to zero; it is not evaluated, which keeps the products in range.
Abs(a) == IF a < 0 THEN 0 - a ELSE a
Reach(other) == 2 * other.mass * G
OutOfReach(rel, other) ==
    \/ Abs(rel.x) > Reach(other)
    \/ Abs(rel.y) > Reach(other)
    \/ Abs(rel.z) > Reach(other)
    \/ Magnitude2(rel) > Reach(other)
get_acc_towards(self, other, out) ==
    LET rel == VSub(other.pos, self.pos)
    IN IF rel.nan THEN NaNVec
       ELSE IF OutOfReach(rel, other) THEN out
       ELSE VAdd(out, VDiv(VScale(VScale(rel, other.mass), G),
                           Magnitude2(rel) * Magnitude(rel) + COLLISION_EPSILON))

\* ------------------------------------------------------------ the inputs
\* The bodies a scenario is made of: three on the x axis, whose centre of
\* mass is the middle one's position; one off the axis; one without mass.
BodyPool ==
    << ObjectInfo(Vec(0 - 30, 0, 0), ZeroVec, 1),
       ObjectInfo(Vec(0, 0, 0), Vec(0, 1, 0), 1),
       ObjectInfo(Vec(10, 0, 0), ZeroVec, 3),
       ObjectInfo(Vec(0, 30, 10), Vec(1, 0, 0), 2),
       ObjectInfo(Vec(10, 10, 20), Vec(0, 0, 1), 0) >>

\* A scenario takes its bodies in the pool's order and may take a body twice
\* (two bodies at one position), none three times.
Picks(n) == { f \in [1..n -> 1..Len(BodyPool)] :
                \A i \in 1..n : \A j \in 1..n :
                    /\ i < j => f[i] <= f[j]
                    /\ i + 1 < j => f[i] < f[j] }
Scenarios == UNION { { [i \in 1..n |-> BodyPool[f[i]]] : f \in Picks(n) } :
                     n \in 1..MaxBodies }
Deltas == 0..MaxDelta

\* ------------------------------------------------------- barnes_hut/tree
RECURSIVE Pow2(_)
Pow2(k) == IF k = 0 THEN 1 ELSE 2 * Pow2(k - 1)

\* A Region bound is kept in units of 1/SUB of a tenth, so that halving a
\* region is exact down to the deepest octant construct_rec can make.
SUB == Pow2(MaxDepth + 1)

\* The spacing of the numbers of `bits` significant bits at the magnitude a.
RECURSIVE Quantum(_, _)
Quantum(a, bits) == IF a < Pow2(bits) THEN 1 ELSE 2 * Quantum(a \div 2, bits)

\* The result of an f64 addition or subtraction whose exact value is x (in
\* 1/SUB of a tenth): x rounded to `mantissa` significant bits, a tie going
\* to the even neighbour.
Fl(x) ==
    IF mantissa = 0 \/ x = 0 THEN x
    ELSE LET a == Abs(x)
             q == Quantum(a, mantissa)
             lo == (a \div q) * q
             r == a - lo
             m == IF 2 * r > q \/ (2 * r = q /\ (lo \div q) % 2 = 1)
                  THEN lo + q ELSE lo
         IN IF x < 0 THEN 0 - m ELSE m

\* The same for a value in tenths.
FlTenths(c) == Fl(c * SUB) \div SUB

\* Region; void is a region with the bounds (inf, -inf), which build_tree
\* makes when no body has a position that compares.
Region(x0, x1, y0, y1, z0, z1) ==
    [x0 |-> x0, x1 |-> x1, y0 |-> y0, y1 |-> y1, z0 |-> z0, z1 |-> z1, void |-> FALSE]
VoidRegion == [x0 |-> 0, x1 |-> 0, y0 |-> 0, y1 |-> 0, z0 |-> 0, z1 |-> 0, void |-> TRUE]

\* Region::contains
contains(r, point) ==
    /\ ~r.void
    /\ ~point.nan
    /\ point.x * SUB >= r.x0
    /\ point.x * SUB < r.x1
    /\ point.y * SUB >= r.y0
    /\ point.y * SUB < r.y1
    /\ point.z * SUB >= r.z0
    /\ point.z * SUB < r.z1


\* Region::size, in units of 1/SUB of a tenth (of a region that is not void).
size(r) == Abs(r.x1 - r.x0)

\* FmmNode::new_internal and FmmNode::new_external
new_internal(region, children) ==
    [kind |-> "Internal", region |-> region, children |-> children,
     center_mass |-> ZeroVec, mass |-> 0, point |-> 0]
new_external(region, point) ==
    [kind |-> "External", region |-> region, children |-> <<>>,
     center_mass |-> ZeroVec, mass |-> 0, point |-> point]

\* FmmNode::mass_center_mass
mass_center_mass(node, objs) ==
    IF node.kind = "External"
    THEN [cm |-> objs[node.point + 1].pos, mass |-> objs[node.point + 1].mass]
    ELSE [cm |-> node.center_mass, mass |-> node.mass]

\* build_tree's loop over the bodies 1..i: the running min and max; inf says
\* they are still (inf, -inf).  f64::min and f64::max skip a NaN operand.
RECURSIVE Bounds(_, _)
Bounds(objs, i) ==
    IF i = 0 THEN [inf |-> TRUE, min |-> ZeroVec, max |-> ZeroVec]
    ELSE LET b == Bounds(objs, i - 1)
             p == objs[i].pos
             lo(cur, c) == IF b.inf THEN c ELSE IF c < cur THEN c ELSE cur
             hi(cur, c) == IF b.inf THEN c ELSE IF c > cur THEN c ELSE cur
         IN IF p.nan
            THEN IF b.inf THEN b
                 ELSE [inf |-> FALSE,
                       min |-> Vec(FlTenths(b.min.x - PAD), FlTenths(b.min.y - PAD),
                                   FlTenths(b.min.z - PAD)),
                       max |-> Vec(FlTenths(b.max.x + PAD), FlTenths(b.max.y + PAD),
                                   FlTenths(b.max.z + PAD))]
            ELSE [inf |-> FALSE,
                  min |-> Vec(FlTenths(lo(b.min.x, p.x) - PAD),
                              FlTenths(lo(b.min.y, p.y) - PAD),
                              FlTenths(lo(b.min.z, p.z) - PAD)),
                  max |-> Vec(FlTenths(hi(b.max.x, p.x) + PAD),
                              FlTenths(hi(b.max.y, p.y) + PAD),
                              FlTenths(hi(b.max.z, p.z) + PAD))]

\* The root region of build_tree.
RootRegion(objs) ==
    LET b == Bounds(objs, Len(objs))
    IN IF b.inf THEN VoidRegion
       ELSE Region(b.min.x * SUB, b.max.x * SUB, b.min.y * SUB, b.max.y * SUB,
                   b.min.z * SUB, b.max.z * SUB)

\* IterOctants::next: the octant with the given index, 0..7.
Octant(parent, index) ==
    IF parent.void THEN VoidRegion
    ELSE LET x_half == Fl(parent.x1 - parent.x0) \div 2
             y_half == Fl(parent.y1 - parent.y0) \div 2
             z_half == Fl(parent.z1 - parent.z0) \div 2
             x_0 == IF (index \div 4) % 2 = 0 THEN parent.x0
                    ELSE Fl(parent.x0 + x_half)
             y_0 == IF (index \div 2) % 2 = 0 THEN parent.y0
                    ELSE Fl(parent.y0 + y_half)
             z_0 == IF index % 2 = 0 THEN parent.z0 ELSE Fl(parent.z0 + z_half)
         IN Region(x_0, Fl(x_0 + x_half), y_0, Fl(y_0 + y_half),
                   z_0, Fl(z_0 + z_half))

\* A construct_rec call in progress: its node, its points, the octant its
\* loop is at (8: past the loop) and the depth of the node.
Frame(node_id, points, depth) ==
    [node |-> node_id, points |-> points, octant |-> 0, depth |-> depth]

\* construct_rec's group for an octant.
Group(octant, points, objs) ==
    SelectSeq(points, LAMBDA point : contains(octant, objs[point + 1].pos))

\* construct_rec's aggregation over the children of a node.
RECURSIVE SumChildren(_, _, _, _)
SumChildren(ns, objs, children, k) ==
    IF k = 0 THEN [cm |-> ZeroVec, mass |-> 0]
    ELSE LET s == SumChildren(ns, objs, children, k - 1)
             c == mass_center_mass(ns[children[k] + 1], objs)
         IN [cm |-> VAdd(s.cm, VScale(c.cm, c.mass)), mass |-> s.mass + c.mass]

\* construct_rec without lines 183-210: the node keeps the aggregate that
\* new_internal gave it.
NoAggregate(ns, objs, node_id) == ns

Aggregate(ns, objs, node_id) ==
    LET s == SumChildren(ns, objs, ns[node_id + 1].children,
                         Len(ns[node_id + 1].children))
    IN [ns EXCEPT ![node_id + 1].center_mass = VDiv(s.cm, s.mass),
                  ![node_id + 1].mass = s.mass]

\* BatchRequest::new(n_objects), and a graphics thread that has yet to redraw.
NewBatch(n_objects) ==
    /\ sample_data = [i \in 1..n_objects |-> [pos |-> ZeroVec, at |-> 0]]
    /\ simulation_tick = 0
    /\ lock = "none"
    /\ store_idx = 0
    /\ render_pc = "idle"
    /\ got = <<>>
    /\ seen_tick = 0 - 1
    /\ since = 0
    /\ passed = 0

\* The keys of KeyboardState that are KeyTriggers and move the focus.
Keys == {"f", "g", "h"}

\* KeyboardState::default() and Camera::new: no key pressed, no trigger
\* pending, no focus.
NewGraphics ==
    /\ keyboard_state = [k \in Keys |-> [pressed |-> FALSE, trigger |-> FALSE]]
    /\ focus = 0 - 1
    /\ held = [k \in Keys |-> FALSE]
    /\ presses = [k \in Keys |-> 0]
    /\ fired = [k \in Keys |-> 0]

\* Vertex::default().
NoVertex == [pos |-> <<0, 0>>, idx |-> 0]

\* ObjectVertexCache::new(n), and a vertex Buffer of its size.
NewCache(n) ==
    /\ buff = [k \in 1..(n * TRAIL_MAX_LENGTH) |-> NoVertex]
    /\ num_objects = n
    /\ head = 0
    /\ tail = 0
    /\ pending_head = 0
    /\ pending_tail = 0
    /\ gpu_buffer = [k \in 1..(n * TRAIL_MAX_LENGTH) |-> NoVertex]
    /\ pushes = 0
    /\ last_batch = <<>>

\* No run_sim_loop drives the ObjectBuffer: exec_iter is called directly,
\* and there are no graphics Objects.
NoLoop ==
    /\ NewBatch(0)
    /\ NewGraphics
    /\ NewCache(0)
    /\ loop_pc = "none"
    /\ tick = 0
    /\ token = FALSE
    /\ should_sample = TRUE
    /\ last_read = "none"
    /\ read_ticks = {}

\* FmmTree::new up to the call of construct_rec on the root.
NewTree(objs) == <<new_internal(RootRegion(objs), <<>>)>>
RootFrame(objs) == <<Frame(0, [i \in 1..Len(objs) |-> i - 1], 0)>>

\* ------------------------------------------------------------ ObjectBuffer
DivCeil(a, b) == (a + b - 1) \div b
Min(a, b) == IF a < b THEN a ELSE b

compute_target_threads(n_objects) ==
    Min(DivCeil(n_objects, OBJECTS_PER_THREAD), MAX_THREADS)

N == Len(objects)
Zeroes(n) == [i \in 1..n |-> ZeroVec]
NoTerms(n) == [i \in 1..n |-> <<>>]
NoTrav == [i |-> 0, stack |-> <<>>]

\* The theta exec_iter passes to barnes_hut::iter (1.0), in tenths.
EXEC_ITER_THETA == 10

\* ObjectBuffer::new
Init ==
    /\ objects \in Scenarios
    /\ out_buffer = Zeroes(Len(objects))
    /\ per_thread = DivCeil(Len(objects), compute_target_threads(Len(objects)))
    /\ pool = compute_target_threads(Len(objects))
    /\ pc = "idle"
    /\ delta = 0
    /\ calls = {}
    /\ tasks = {}
    /\ steps = 0
    /\ use_barnes_hut \in BOOLEAN
    /\ mantissa = 0
    /\ theta = EXEC_ITER_THETA
    /\ nodes = <<>>
    /\ stack = <<>>
    /\ trav = NoTrav
    /\ objects0 = objects
    /\ acc_done = out_buffer
    /\ applied = NoTerms(Len(objects))
    /\ NoLoop

\* A call of exec_iter_rec or add_acc_rec on the slice [lo, hi) (absolute,
\* 0-based, hi exclusive) with the parameter idx.
Call(fn, lo, hi, idx) == [fn |-> fn, lo |-> lo, hi |-> hi, idx |-> idx]
\* A leaf task on the slice [lo, hi): iter_chunk(objects, slice, start) or
\* add_acc(obj_slice, acc_slice, delta); k is the position of its outer loop
\* in the slice and j the position of iter_chunk's inner loop.
Task(fn, lo, hi, start) ==
    [fn |-> fn, lo |-> lo, hi |-> hi, start |-> start, k |-> 0, j |-> 0]

Finished(t) == t.k = t.hi - t.lo

\* The steps a behaviour is followed for.
StepLimit == IF loop_pc = "none" THEN MaxSteps ELSE MaxTicks

\* run_sim_loop's part in a call of exec_iter (i += 1; sim.exec_iter()) and in
\* its return; nothing where exec_iter is called directly.
LoopCall ==
    /\ UNCHANGED <<exchange_vars, graphics_vars>>
    /\ IF loop_pc = "none" THEN UNCHANGED loop_vars
       ELSE /\ loop_pc = "top"
            /\ tick' = tick + 1
            /\ loop_pc' = "step"
            /\ UNCHANGED <<token, should_sample, last_read, read_ticks>>
LoopReturn ==
    /\ UNCHANGED <<exchange_vars, graphics_vars>>
    /\ IF loop_pc = "none" THEN UNCHANGED loop_vars
       ELSE /\ loop_pc' = "check"
            /\ UNCHANGED <<tick, token, should_sample, last_read, read_ticks>>

\* ObjectBuffer::exec_iter, the call: barnes_hut::iter begins (FmmTree::new),
\* or the first pool.install forks exec_iter_rec.
exec_iter ==
    /\ pc = "idle"
    /\ steps < StepLimit
    /\ LoopCall
    /\ \E d \in Deltas : delta' = d
    /\ IF use_barnes_hut
       THEN /\ pc' = "build"
            /\ nodes' = NewTree(objects)
            /\ stack' = RootFrame(objects)
            /\ calls' = {}
       ELSE /\ pc' = "force"
            /\ calls' = {Call("exec_iter_rec", 0, N, 0)}
            /\ UNCHANGED <<nodes, stack>>
    /\ tasks' = {}
    /\ objects0' = objects
    /\ applied' = NoTerms(N)
    /\ UNCHANGED <<objects, out_buffer, per_thread, steps, acc_done, build_vars, trav>>

\* The start index exec_iter_rec hands to iter_chunk.
ChunkStartIdx(c) == c.idx
ChunkStart(c) == c.idx * per_thread

\* Whether exec_iter_rec takes its whole slice as one chunk.
ExecLeafStrict(c) == per_thread > c.hi - c.lo
ExecLeaf(c) == per_thread >= c.hi - c.lo

\* exec_iter_rec: a leaf, or rayon::join of a leaf and the rest.
exec_iter_rec ==
    \E c \in calls :
        /\ c.fn = "exec_iter_rec"
        /\ IF ExecLeaf(c)
           THEN /\ tasks' = tasks \cup {Task("iter_chunk", c.lo, c.hi, ChunkStart(c))}
                /\ calls' = calls \ {c}
           ELSE /\ tasks' = tasks \cup
                        {Task("iter_chunk", c.lo, c.lo + per_thread, ChunkStart(c))}
                /\ calls' = (calls \ {c}) \cup
                        {Call("exec_iter_rec", c.lo + per_thread, c.hi, c.idx + 1)}
        /\ UNCHANGED <<objects, out_buffer, per_thread, pc, delta, steps,
                       objects0, acc_done, applied, sim_vars, tree_vars>>

\* Whether iter_chunk's inner loop skips the pair (i, other_idx).
SkipNone(i, other_idx) == FALSE
SkipPair(i, other_idx) == other_idx = i

\* One iteration of iter_chunk's inner loop (all of it for a body alone).
iter_chunk ==
    \E t \in tasks :
        /\ t.fn = "iter_chunk"
        /\ ~Finished(t)
        /\ LET i == t.start + t.k
               slot == t.lo + t.k
               last == t.j + 1 >= N
               t2 == [t EXCEPT !.k = IF last THEN t.k + 1 ELSE t.k,
                               !.j = IF last THEN 0 ELSE t.j + 1]
           IN /\ i < N
              /\ tasks' = (tasks \ {t}) \cup {t2}
              /\ IF SkipPair(i, t.j)
                 THEN UNCHANGED <<out_buffer, applied>>
                 ELSE /\ out_buffer' = [out_buffer EXCEPT ![slot + 1] =
                            get_acc_towards(objects[i + 1], objects[t.j + 1], @)]
                      /\ applied' = [applied EXCEPT ![slot + 1] =
                            Append(@, <<"body", t.j>>)]
        /\ UNCHANGED <<objects, per_thread, pc, delta, calls, steps,
                       objects0, acc_done, sim_vars, tree_vars>>

\* pool.install has returned: every forked call ran and every task is done.
Joined == calls = {} /\ \A t \in tasks : Finished(t)

\* The first pool.install of exec_iter returns only when exec_iter_rec has.
ForceNoBarrier == TRUE
ForceDone == Joined

\* exec_iter between its two pool.install calls: the second forks add_acc_rec.
\* (The finished iter_chunk tasks stay in tasks until exec_iter returns.)
force_joined ==
    /\ pc = "force"
    /\ ForceDone
    /\ pc' = "integrate"
    /\ calls' = calls \cup {Call("add_acc_rec", 0, N, 0)}
    /\ tasks' = tasks
    /\ acc_done' = out_buffer
    /\ UNCHANGED <<objects, out_buffer, per_thread, delta, steps, objects0, applied,
                   sim_vars, tree_vars>>

\* add_acc_rec: a leaf, or rayon::join of two recursive calls.
add_acc_rec ==
    \E c \in calls :
        /\ c.fn = "add_acc_rec"
        /\ IF per_thread >= c.hi - c.lo
           THEN /\ tasks' = tasks \cup {Task("add_acc", c.lo, c.hi, c.lo)}
                /\ calls' = calls \ {c}
           ELSE /\ tasks' = tasks
                /\ calls' = (calls \ {c}) \cup
                        {Call("add_acc_rec", c.lo, c.lo + per_thread, c.idx),
                         Call("add_acc_rec", c.lo + per_thread, c.hi, c.idx + 1)}
        /\ UNCHANGED <<objects, out_buffer, per_thread, pc, delta, steps,
                       objects0, acc_done, applied, sim_vars, tree_vars>>

\* The body of add_acc's loop: the new (obj, acc).
IntegrateExplicit(obj, acc, d) ==
    [obj |-> [obj EXCEPT !.vel = VAdd(obj.vel, VScale(acc, d)),
                         !.pos = VAdd(obj.pos, VScale(obj.vel, d))],
     acc |-> ZeroVec]
IntegrateNoReset(obj, acc, d) ==
    LET vel == VAdd(obj.vel, VScale(acc, d))
        pos == VAdd(obj.pos, VScale(vel, d))
    IN [obj |-> [obj EXCEPT !.vel = vel, !.pos = pos], acc |-> acc]
IntegrateMass(obj, acc, d) ==
    LET vel == VAdd(obj.vel, VScale(acc, d))
        pos == VAdd(obj.pos, VScale(vel, d))
    IN [obj |-> [obj EXCEPT !.vel = vel, !.pos = pos, !.mass = obj.mass + 1],
        acc |-> ZeroVec]
Integrate(obj, acc, d) ==
    LET vel == VAdd(obj.vel, VScale(acc, d))
        pos == VAdd(obj.pos, VScale(vel, d))
    IN [obj |-> [obj EXCEPT !.vel = vel, !.pos = pos], acc |-> ZeroVec]

\* One iteration of add_acc's loop.
add_acc ==
    \E t \in tasks :
        /\ t.fn = "add_acc"
        /\ ~Finished(t)
        /\ LET slot == t.lo + t.k + 1
               r == Integrate(objects[slot], out_buffer[slot], delta)
           IN /\ objects' = [objects EXCEPT ![slot] = r.obj]
              /\ out_buffer' = [out_buffer EXCEPT ![slot] = r.acc]
        /\ tasks' = (tasks \ {t}) \cup {[t EXCEPT !.k = t.k + 1]}
        /\ UNCHANGED <<per_thread, pc, delta, calls, steps, objects0, acc_done, applied,
                       sim_vars, tree_vars>>

\* exec_iter returns.
exec_iter_return ==
    /\ pc = "integrate"
    /\ Joined
    /\ pc' = "idle"
    /\ steps' = steps + 1
    /\ tasks' = {}
    /\ LoopReturn
    /\ UNCHANGED <<objects, out_buffer, per_thread, delta, calls, objects0,
                   acc_done, applied, build_vars, tree_vars>>

\* ------------------------------------------------------------- barnes_hut
Top(st) == st[Len(st)]
Pop(st) == SubSeq(st, 1, Len(st) - 1)

\* One iteration of construct_rec's loop over the octants: no child, an
\* External child, or an Internal child and the recursive call on it.
construct_rec ==
    /\ pc = "build"
    /\ stack # <<>>
    /\ Top(stack).octant < 8
    /\ LET f == Top(stack)
           octant == Octant(nodes[f.node + 1].region, f.octant)
           group == Group(octant, f.points, objects)
           child_id == Len(nodes)
           advanced == [stack EXCEPT ![Len(stack)].octant = f.octant + 1]
       IN IF group = <<>>
          THEN /\ stack' = advanced
               /\ nodes' = nodes
          ELSE IF Len(group) > 1
          THEN /\ f.depth < MaxDepth
               /\ nodes' = Append(nodes, new_internal(octant, <<>>))
               /\ stack' = Append(stack, Frame(child_id, group, f.depth + 1))
          ELSE /\ nodes' = Append([nodes EXCEPT ![f.node + 1].children =
                                        Append(@, child_id)],
                                  new_external(octant, group[1]))
               /\ stack' = advanced
    /\ UNCHANGED <<objects, out_buffer, per_thread, pc, delta, calls, tasks, steps,
                   objects0, acc_done, applied, sim_vars, trav>>

\* construct_rec past its loop: the node's aggregate, the return, and in the
\* caller the push of the child; build_tree and FmmTree::new return after
\* the root's, and iter's loop over the bodies begins.
construct_rec_return ==
    /\ pc = "build"
    /\ stack # <<>>
    /\ Top(stack).octant = 8
    /\ LET f == Top(stack)
           done == Aggregate(nodes, objects, f.node)
           rest == Pop(stack)
       IN IF rest = <<>>
          THEN /\ nodes' = done
               /\ stack' = <<>>
               /\ pc' = "traverse"
               /\ trav' = [i |-> 0, stack |-> <<0>>]
          ELSE /\ nodes' = [done EXCEPT ![Top(rest).node + 1].children =
                                Append(@, f.node)]
               /\ stack' = [rest EXCEPT ![Len(rest)].octant = @ + 1]
               /\ UNCHANGED <<pc, trav>>
    /\ UNCHANGED <<objects, out_buffer, per_thread, delta, calls, tasks, steps,
                   objects0, acc_done, applied, sim_vars>>

\* compute_acc's test dist_sq * theta_sq < size_sq for theta = th / 10, a
\* distance in tenths and a size in 1/SUB of a tenth: with K = th * SUB and
\* M = 10 * sz it is dist_sq * K * K < M * M, computed without the products.
Descend(dist_sq, th, sz) ==
    IF th = 0 THEN sz > 0
    ELSE LET K == th * SUB
             q == (10 * sz) \div K
             r == (10 * sz) % K
         IN IF r = 0 THEN dist_sq < q * q
            ELSE dist_sq <= q * q + (2 * K * q * r + r * r - 1) \div (K * K)

\* What compute_acc does with the node it popped for the body id: "skip",
\* "body" (a body-body interaction), "descend" or "node" (the node as one body).
Visit(node, id, obj, th) ==
    IF node.kind = "External"
    THEN IF node.point = id THEN "skip" ELSE "body"
    ELSE LET rel == VSub(node.center_mass, obj.pos)
         IN IF rel.nan THEN "node"
            ELSE IF Magnitude2(rel) = 0 THEN "skip"
            ELSE IF node.region.void \/ Descend(Magnitude2(rel), th, size(node.region))
            THEN "descend"
            ELSE "node"

\* One iteration of compute_acc's loop for the body trav.i, or, its stack
\* empty, iter's step to the next body.
compute_acc ==
    /\ pc = "traverse"
    /\ trav.i < N
    /\ IF trav.stack = <<>>
       THEN /\ trav' = [i |-> trav.i + 1,
                        stack |-> IF trav.i + 1 < N THEN <<0>> ELSE <<>>]
            /\ UNCHANGED <<out_buffer, applied>>
       ELSE LET node_id == Top(trav.stack)
                node == nodes[node_id + 1]
                obj == objects[trav.i + 1]
                what == Visit(node, trav.i, obj, theta)
            IN /\ trav' = [trav EXCEPT !.stack =
                              IF what = "descend" THEN Pop(@) \o node.children
                              ELSE Pop(@)]
               /\ out_buffer' = [out_buffer EXCEPT ![trav.i + 1] =
                      IF what = "body"
                      THEN get_acc_towards(obj, objects[node.point + 1], @)
                      ELSE IF what = "node"
                      THEN get_acc_towards(obj,
                               ObjectInfo(node.center_mass, ZeroVec, node.mass), @)
                      ELSE @]
               /\ applied' = [applied EXCEPT ![trav.i + 1] =
                      IF what = "body" THEN Append(@, <<"body", node.point>>)
                      ELSE IF what = "node" THEN Append(@, <<"node", node_id>>)
                      ELSE @]
    /\ UNCHANGED <<objects, per_thread, pc, delta, calls, tasks, steps,
                   objects0, acc_done, nodes, stack, sim_vars>>

\* barnes_hut::iter has gone through every body.
IterDone == pc = "traverse" /\ trav.i = N

\* exec_iter after barnes_hut::iter: pool.install forks add_acc_rec.
iter_joined ==
    /\ IterDone
    /\ pc' = "integrate"
    /\ calls' = {Call("add_acc_rec", 0, N, 0)}
    /\ tasks' = {}
    /\ acc_done' = out_buffer
    /\ UNCHANGED <<objects, out_buffer, per_thread, delta, steps, objects0, applied,
                   sim_vars, tree_vars>>

Next ==
    \/ exec_iter
    \/ exec_iter_rec
    \/ iter_chunk
    \/ force_joined
    \/ construct_rec
    \/ construct_rec_return
    \/ compute_acc
    \/ iter_joined
    \/ add_acc_rec
    \/ add_acc
    \/ exec_iter_return

Spec == Init /\ [][Next]_vars

\* ------------------------------------------------- barnes_hut::iter alone
\* The thetas a caller passes, in tenths: 0, BARNES_HUT_COEFF and 1.0.
Thetas == {0, 3, 10}

\* A call of barnes_hut::iter(info, out, theta) on a zeroed accumulator.
InitIter ==
    /\ objects \in Scenarios
    /\ out_buffer = Zeroes(Len(objects))
    /\ per_thread = DivCeil(Len(objects), compute_target_threads(Len(objects)))
    /\ pool = compute_target_threads(Len(objects))
    /\ pc = "build"
    /\ delta = 0
    /\ calls = {}
    /\ tasks = {}
    /\ steps = 0
    /\ use_barnes_hut = TRUE
    /\ mantissa = 0
    /\ theta \in Thetas
    /\ nodes = NewTree(objects)
    /\ stack = RootFrame(objects)
    /\ trav = NoTrav
    /\ objects0 = objects
    /\ acc_done = out_buffer
    /\ applied = NoTerms(Len(objects))
    /\ NoLoop

\* barnes_hut::iter returns.
iter_return ==
    /\ IterDone
    /\ pc' = "returned"
    /\ acc_done' = out_buffer
    /\ UNCHANGED <<objects, out_buffer, per_thread, delta, calls, tasks, steps,
                   objects0, applied, sim_vars, tree_vars>>

NextIter ==
    \/ construct_rec
    \/ construct_rec_return
    \/ compute_acc
    \/ iter_return

SpecIter == InitIter /\ [][NextIter]_vars

\* --------------------------------------------- ObjectBuffer::new, then steps
\* The call ObjectBuffer::new(objects) is about to run; objects may be empty.
InitNew ==
    /\ objects \in Scenarios \cup {<<>>}
    /\ out_buffer = <<>>
    /\ per_thread = 0
    /\ pool = 0
    /\ pc = "new"
    /\ delta = 0
    /\ calls = {}
    /\ tasks = {}
    /\ steps = 0
    /\ use_barnes_hut \in BOOLEAN
    /\ mantissa = 0
    /\ theta = EXEC_ITER_THETA
    /\ nodes = <<>>
    /\ stack = <<>>
    /\ trav = NoTrav
    /\ objects0 = objects
    /\ acc_done = <<>>
    /\ applied = <<>>
    /\ NoLoop

\* assert!(n_objects > 0) of compute_target_threads.
NoPrecondition(n_objects) == TRUE
Precondition(n_objects) == n_objects > 0

\* ObjectBuffer::new: out_buffer, then compute_target_threads (which panics
\* on its assertion), then per_thread (div_ceil panics on a divisor 0), then
\* the pool.
new ==
    /\ pc = "new"
    /\ IF ~Precondition(N)
       THEN /\ pc' = "assert_failed"
            /\ UNCHANGED <<out_buffer, per_thread, pool, acc_done, applied>>
       ELSE IF compute_target_threads(N) = 0
       THEN /\ pc' = "divide_by_zero"
            /\ UNCHANGED <<out_buffer, per_thread, pool, acc_done, applied>>
       ELSE /\ out_buffer' = Zeroes(N)
            /\ per_thread' = DivCeil(N, compute_target_threads(N))
            /\ pool' = compute_target_threads(N)
            /\ acc_done' = Zeroes(N)
            /\ applied' = NoTerms(N)
            /\ pc' = "idle"
    /\ UNCHANGED <<objects, delta, calls, tasks, steps, use_barnes_hut, theta, mantissa,
                   objects0, tree_vars, loop_vars, exchange_vars, graphics_vars>>

NextNew ==
    \/ new
    \/ Next

SpecNew == InitNew /\ [][NextNew]_vars

\* ------------------------------------- the work split at the build's constants
\* MAX_THREADS and OBJECTS_PER_THREAD as constants.rs has them, and the body
\* counts the split is followed for.
SRC_MAX_THREADS == 20
SRC_OBJECTS_PER_THREAD == 2000
MaxCount == 40100

src_target_threads(n_objects) ==
    Min(DivCeil(n_objects, SRC_OBJECTS_PER_THREAD), SRC_MAX_THREADS)

\* exec_iter's call exec_iter_rec(&objects, &mut out_buffer, per_thread, 0) on
\* n bodies; only the lengths of the slices are kept.
InitSplit ==
    /\ \E n \in 1..MaxCount :
          /\ per_thread = DivCeil(n, src_target_threads(n))
          /\ pool = src_target_threads(n)
          /\ calls = {Call("exec_iter_rec", 0, n, 0)}
    /\ objects = <<>>
    /\ out_buffer = <<>>
    /\ pc = "force"
    /\ delta = 0
    /\ tasks = {}
    /\ steps = 0
    /\ use_barnes_hut = FALSE
    /\ mantissa = 0
    /\ theta = EXEC_ITER_THETA
    /\ nodes = <<>>
    /\ stack = <<>>
    /\ trav = NoTrav
    /\ objects0 = <<>>
    /\ acc_done = <<>>
    /\ applied = <<>>
    /\ NoLoop

NextSplit == exec_iter_rec

SpecSplit == InitSplit /\ [][NextSplit]_vars

\* ------------------------------- the Direct evaluator at every thread count
\* The pool sizes the Direct evaluator is run with.
ThreadCounts == {1, 2, 4, 8}

\* An ObjectBuffer built for the Direct evaluator with n_threads = t.
InitThreads ==
    /\ objects \in Scenarios
    /\ \E t \in ThreadCounts :
          /\ per_thread = DivCeil(Len(objects), t)
          /\ pool = t
    /\ out_buffer = Zeroes(Len(objects))
    /\ pc = "idle"
    /\ delta = 0
    /\ calls = {}
    /\ tasks = {}
    /\ steps = 0
    /\ use_barnes_hut = FALSE
    /\ mantissa = 0
    /\ theta = EXEC_ITER_THETA
    /\ nodes = <<>>
    /\ stack = <<>>
    /\ trav = NoTrav
    /\ objects0 = objects
    /\ acc_done = out_buffer
    /\ applied = NoTerms(Len(objects))
    /\ NoLoop

\* The force evaluation of one exec_iter call.
NextThreads ==
    \/ exec_iter
    \/ exec_iter_rec
    \/ iter_chunk
    \/ force_joined

SpecThreads == InitThreads /\ [][NextThreads]_vars

\* ------------------------------------------------------------ run_sim_loop
CHECK_INTERVAL == 500

\* The bodies run_sim_loop is followed with: bodies at rest that stay so.
LoopScenarios == { <<BodyPool[1]>>, <<BodyPool[1], BodyPool[3]>> }

\* main has spawned run_sim_loop(sim, exchange, token) on a new ObjectBuffer
\* and BatchRequest.
InitLoop ==
    /\ objects \in LoopScenarios
    /\ out_buffer = Zeroes(Len(objects))
    /\ per_thread = DivCeil(Len(objects), compute_target_threads(Len(objects)))
    /\ pool = compute_target_threads(Len(objects))
    /\ pc = "idle"
    /\ delta = 0
    /\ calls = {}
    /\ tasks = {}
    /\ steps = 0
    /\ use_barnes_hut = FALSE
    /\ mantissa = 0
    /\ theta = EXEC_ITER_THETA
    /\ nodes = <<>>
    /\ stack = <<>>
    /\ trav = NoTrav
    /\ objects0 = objects
    /\ acc_done = out_buffer
    /\ applied = NoTerms(Len(objects))
    /\ loop_pc = "top"
    /\ tick = 0
    /\ token = FALSE
    /\ should_sample = TRUE
    /\ last_read = "none"
    /\ read_ticks = {}
    /\ NewBatch(Len(objects))
    /\ NewGraphics
    /\ NewCache(0)

step_vars == <<objects, out_buffer, per_thread, pc, delta, calls, tasks, steps,
               build_vars, tree_vars, objects0, acc_done, applied, graphics_vars>>

\* Whether run_sim_loop looks at the exchange and the token after step i.
EveryTick(n) == TRUE
CheckPoint(n) == n % CHECK_INTERVAL = 0

\* What compare_exchange_weak(true, false) leaves in the flag when it succeeds.
NotSwapped(current, value) == current
Swapped(current, value) == value

\* A counter of the history, followed up to 3.
Counted(n) == IF n < 3 THEN n + 1 ELSE n

\* run_sim_loop after sim.exec_iter() has returned: at a check point it
\* goes on to store a sample if BatchRequest::should_store() says so (a
\* compare_exchange_weak, which may fail although the flag is set), otherwise
\* it loads the token, and breaks if it is set.
run_sim_loop ==
    /\ loop_pc = "check"
    /\ IF ~CheckPoint(tick)
       THEN /\ loop_pc' = "top"
            /\ UNCHANGED <<should_sample, last_read, read_ticks, since, passed>>
       ELSE \/ /\ should_sample
               /\ should_sample' = Swapped(should_sample, FALSE)
               /\ loop_pc' = "store"
               /\ since' = Counted(since)
               /\ passed' = IF token THEN Counted(passed) ELSE passed
               /\ UNCHANGED <<last_read, read_ticks>>
            \/ /\ last_read' = IF token THEN "true" ELSE "false"
               /\ read_ticks' = read_ticks \cup {tick}
               /\ loop_pc' = IF token THEN "exited" ELSE "top"
               /\ UNCHANGED <<should_sample, since, passed>>
    /\ UNCHANGED <<tick, token, step_vars, sample_data, simulation_tick, lock,
                   store_idx, render_pc, got, seen_tick>>

\* Whether the Mutex can be locked.
Unlocked == lock = "none"

\* obj.pos.x as f32: the coordinate (in tenths) rounded to the 24
\* significant bits of an f32, a tie going to the even neighbour.
as_f32(c) ==
    LET a == Abs(c)
        q == Quantum(a, 24)
        lo == (a \div q) * q
        r == a - lo
        m == IF 2 * r > q \/ (2 * r = q /\ (lo \div q) % 2 = 1) THEN lo + q ELSE lo
    IN IF c < 0 THEN 0 - m ELSE m

\* What store() writes into slot i of the sample for the bodies objs.
Stored(objs, i) ==
    LET p == objs[i].pos
    IN IF p.nan THEN NaNVec ELSE Vec(as_f32(p.x), as_f32(p.y), as_f32(p.z))

\* BatchRequest::store(sim, i), its first statement.
store_tick ==
    /\ loop_pc = "store"
    /\ simulation_tick' = tick
    /\ loop_pc' = "store_lock"
    /\ UNCHANGED <<tick, token, should_sample, last_read, read_ticks, step_vars,
                   sample_data, lock, store_idx, render_pc, got, seen_tick,
                   since, passed>>

\* store: self.sample.lock().
store_lock ==
    /\ loop_pc = "store_lock"
    /\ Unlocked
    /\ lock' = "sim"
    /\ store_idx' = 0
    /\ loop_pc' = "store_write"
    /\ UNCHANGED <<tick, token, should_sample, last_read, read_ticks, step_vars,
                   sample_data, simulation_tick, render_pc, got, seen_tick,
                   since, passed>>

\* store: one iteration of its loop over the slots zipped with the bodies,
\* or, past the loop, the return, which unlocks the Mutex.
store ==
    /\ loop_pc = "store_write"
    /\ IF store_idx < Min(Len(sample_data), Len(objects))
       THEN /\ sample_data' =
                 [sample_data EXCEPT ![store_idx + 1] =
                     [pos |-> Stored(objects, store_idx + 1), at |-> tick]]
            /\ store_idx' = store_idx + 1
            /\ UNCHANGED <<loop_pc, lock>>
       ELSE /\ loop_pc' = "top"
            /\ lock' = IF lock = "sim" THEN "none" ELSE lock
            /\ UNCHANGED <<sample_data, store_idx>>
    /\ UNCHANGED <<tick, token, should_sample, last_read, read_ticks, step_vars,
                   simulation_tick, render_pc, got, seen_tick, since, passed>>

\* BatchRequest::sample, called by the graphics thread for a redraw while the
\* graphics run: the lock and objects.push_items(&data).
sample ==
    /\ ~token
    /\ render_pc \in {"idle", "sampled"}
    /\ Unlocked
    /\ lock' = "render"
    /\ got' = sample_data
    /\ seen_tick' = 0 - 1
    /\ render_pc' = "pushed"
    /\ UNCHANGED <<loop_pc, tick, token, should_sample, last_read, read_ticks,
                   step_vars, sample_data, simulation_tick, store_idx, since, passed>>

\* sample: should_sample.store(true) and the return, which unlocks the Mutex.
sample_return ==
    /\ render_pc = "pushed"
    /\ should_sample' = TRUE
    /\ since' = 0
    /\ lock' = IF lock = "render" THEN "none" ELSE lock
    /\ render_pc' = "sampled"
    /\ UNCHANGED <<loop_pc, tick, token, last_read, read_ticks, step_vars,
                   sample_data, simulation_tick, store_idx, got, seen_tick, passed>>

\* BatchRequest::current_ticks, called later in the redraw that sampled.
current_ticks ==
    /\ ~token
    /\ render_pc = "sampled"
    /\ seen_tick' = simulation_tick
    /\ render_pc' = "idle"
    /\ UNCHANGED <<loop_pc, tick, token, should_sample, last_read, read_ticks,
                   step_vars, sample_data, simulation_tick, lock, store_idx, got,
                   since, passed>>

\* main, after the graphics have ended (no redraw is in progress):
\* token.store(true).
shutdown ==
    /\ ~token
    /\ render_pc \in {"idle", "sampled"}
    /\ token' = TRUE
    /\ UNCHANGED <<loop_pc, tick, should_sample, last_read, read_ticks, step_vars,
                   exchange_vars>>

NextLoop ==
    \/ exec_iter
    \/ exec_iter_rec
    \/ iter_chunk
    \/ force_joined
    \/ add_acc_rec
    \/ add_acc
    \/ exec_iter_return
    \/ run_sim_loop
    \/ store_tick
    \/ store_lock
    \/ store
    \/ sample
    \/ sample_return
    \/ current_ticks
    \/ shutdown

SpecLoop == InitLoop /\ [][NextLoop]_vars

\* The steps of the simulation thread (spawned in main) and of its pool.
SimStep ==
    \/ exec_iter
    \/ exec_iter_rec
    \/ iter_chunk
    \/ force_joined
    \/ add_acc_rec
    \/ add_acc
    \/ exec_iter_return
    \/ run_sim_loop
    \/ store_tick
    \/ store_lock
    \/ store

\* run_sim_loop on a single body, and a simulation thread that is scheduled
\* as long as it can take a step; nothing is asked of the graphics thread or
\* of main.
InitLoopFair == InitLoop /\ Len(objects) = 1

SpecLoopFair == InitLoopFair /\ [][NextLoop]_vars /\ WF_vars(SimStep)

\* ------------------------------------------- get_acc_towards, both versions
\* COLLISION_EPSILON of sim.rs.
LEGACY_COLLISION_EPSILON == 0

\* ObjectInfo::get_acc_towards of sim.rs: the new value of *out.
legacy_get_acc_towards(self, other, out) ==
    LET rel == VSub(other.pos, self.pos)
    IN IF rel.nan THEN NaNVec
       ELSE IF OutOfReach(rel, other) THEN out
       ELSE VAdd(out, VDiv(VScale(VScale(rel, other.mass), G),
                           Magnitude2(rel) * Magnitude(rel) + LEGACY_COLLISION_EPSILON))

\* The accumulator values a pair is evaluated into.
Accumulators == {ZeroVec, Vec(1, 0, 0), Vec(0 - 2, 3, 5)}

\* A call self.get_acc_towards(other, out) is about to run: objects is
\* <<self, other>>, out_buffer is <<*out>>.
InitPair ==
    /\ objects \in {<<BodyPool[a], BodyPool[b]>> : a, b \in 1..Len(BodyPool)}
    /\ out_buffer \in {<<a>> : a \in Accumulators}
    /\ per_thread = 1
    /\ pool = 1
    /\ pc = "pair"
    /\ delta = 0
    /\ calls = {}
    /\ tasks = {}
    /\ steps = 0
    /\ use_barnes_hut = FALSE
    /\ mantissa = 0
    /\ theta = EXEC_ITER_THETA
    /\ nodes = <<>>
    /\ stack = <<>>
    /\ trav = NoTrav
    /\ objects0 = objects
    /\ acc_done = out_buffer
    /\ applied = <<>>
    /\ NoLoop

pair_frame == <<objects, per_thread, delta, calls, tasks, steps, objects0,
                acc_done, applied, sim_vars, tree_vars>>

\* get_acc_towards of sim/mod.rs on the pair.
pair_get_acc_towards ==
    /\ pc = "pair"
    /\ out_buffer' = <<get_acc_towards(objects[1], objects[2], out_buffer[1])>>
    /\ pc' = "paired"
    /\ UNCHANGED pair_frame

\* get_acc_towards of sim.rs on the pair.
pair_legacy_get_acc_towards ==
    /\ pc = "pair"
    /\ out_buffer' = <<legacy_get_acc_towards(objects[1], objects[2], out_buffer[1])>>
    /\ pc' = "paired_legacy"
    /\ UNCHANGED pair_frame

NextPair ==
    \/ pair_get_acc_towards
    \/ pair_legacy_get_acc_towards

SpecPair == InitPair /\ [][NextPair]_vars

\* --------------------- barnes_hut::iter on a scene, then with massless bodies
\* The massless bodies a scene is extended by, at positions of their own.
MasslessPool == << ObjectInfo(Vec(10, 10, 20), Vec(0, 0, 1), 0),
                   ObjectInfo(Vec(0 - 10, 5, 0), ZeroVec, 0) >>
Additions == { <<MasslessPool[1]>>, <<MasslessPool[2]>>, MasslessPool }

\* barnes_hut::iter is called on a scene of bodies that all have mass, at
\* distinct positions, with room for a massless body.
InitAdd ==
    /\ InitIter
    /\ Len(objects) < MaxBodies
    /\ \A i \in 1..Len(objects) : objects[i].mass > 0
    /\ \A i \in 1..Len(objects) : \A j \in 1..Len(objects) :
          i # j => objects[i].pos # objects[j].pos

\* The scene of the first evaluation is extended by massless bodies, the
\* accumulator is zeroed, and barnes_hut::iter is called again; acc_done
\* keeps what the first evaluation wrote.
add_massless ==
    /\ pc = "returned"
    /\ steps = 0
    /\ \E more \in Additions :
          /\ Len(objects) + Len(more) <= MaxBodies
          /\ objects' = objects \o more
    /\ out_buffer' = Zeroes(Len(objects'))
    /\ applied' = NoTerms(Len(objects'))
    /\ nodes' = NewTree(objects')
    /\ stack' = RootFrame(objects')
    /\ trav' = NoTrav
    /\ pc' = "build"
    /\ steps' = 1
    /\ UNCHANGED <<per_thread, delta, calls, tasks, objects0, acc_done, sim_vars>>

NextAdd ==
    \/ construct_rec
    \/ construct_rec_return
    \/ compute_acc
    \/ iter_return
    \/ add_massless

SpecAdd == InitAdd /\ [][NextAdd]_vars

\* ------------------------------------ FmmTree::new, its additions rounded
\* The significant bits of a region bound: what the 53 of an f64 are to
\* positions in AU, scaled to positions of a few tenths.
MANTISSA == 6

\* Bodies at positions that these bits represent exactly.
RoundedPool ==
    << ObjectInfo(Vec(2, 22, 0 - 4), ZeroVec, 1),
       ObjectInfo(Vec(0 - 14, 29, 14), ZeroVec, 2),
       ObjectInfo(Vec(12, 15, 0 - 20), ZeroVec, 3),
       ObjectInfo(Vec(0 - 25, 16, 23), ZeroVec, 1),
       ObjectInfo(Vec(0 - 4, 0 - 5, 28), ZeroVec, 2),
       ObjectInfo(Vec(0 - 18, 15, 18), ZeroVec, 3) >>

RoundedScenarios ==
    LET K == 1..Len(RoundedPool)
    IN { <<RoundedPool[a], RoundedPool[b]>> : a \in K, b \in K } \cup
       { <<RoundedPool[a], RoundedPool[b], RoundedPool[c]>> : a \in K, b \in K, c \in K }

\* A call of barnes_hut::iter on bodies at pairwise distinct positions.
InitRounded ==
    /\ mantissa = MANTISSA
    /\ objects \in { s \in RoundedScenarios :
                       \A i \in 1..Len(s) : \A j \in 1..Len(s) :
                          i # j => s[i].pos # s[j].pos }
    /\ out_buffer = Zeroes(Len(objects))
    /\ per_thread = DivCeil(Len(objects), compute_target_threads(Len(objects)))
    /\ pool = compute_target_threads(Len(objects))
    /\ pc = "build"
    /\ delta = 0
    /\ calls = {}
    /\ tasks = {}
    /\ steps = 0
    /\ use_barnes_hut = TRUE
    /\ theta = EXEC_ITER_THETA
    /\ nodes = NewTree(objects)
    /\ stack = RootFrame(objects)
    /\ trav = NoTrav
    /\ objects0 = objects
    /\ acc_done = out_buffer
    /\ applied = NoTerms(Len(objects))
    /\ NoLoop

NextRounded ==
    \/ construct_rec
    \/ construct_rec_return

SpecRounded == InitRounded /\ [][NextRounded]_vars

\* ------------------------------------------- sim.rs: the legacy exec_iter
LEGACY_MAX_THREADS == 4
LEGACY_OBJECTS_PER_THREAD == 10
MaxLegacyCount == 45

\* sim.rs compute_target_threads
legacy_target_threads(n_objects) ==
    Min(DivCeil(n_objects, LEGACY_OBJECTS_PER_THREAD), LEGACY_MAX_THREADS)

\* sim.rs exec_iter up to its call exec_iter_rec(objects, out_buffer,
\* per_thread, 0) on n bodies; n_threads is kept in pool.
InitLegacy ==
    /\ \E n \in 1..MaxLegacyCount :
          /\ objects = [i \in 1..n |-> BodyPool[1]]
          /\ pool = legacy_target_threads(n)
          /\ per_thread = (n \div legacy_target_threads(n)) +
                          (IF n % legacy_target_threads(n) > 0 THEN 1 ELSE 0)
          /\ calls = {Call("exec_iter_rec", 0, n, 0)}
    /\ out_buffer = Zeroes(Len(objects))
    /\ pc = "force"
    /\ delta = 0
    /\ tasks = {}
    /\ steps = 0
    /\ use_barnes_hut = FALSE
    /\ mantissa = 0
    /\ theta = EXEC_ITER_THETA
    /\ nodes = <<>>
    /\ stack = <<>>
    /\ trav = NoTrav
    /\ objects0 = objects
    /\ acc_done = out_buffer
    /\ applied = NoTerms(Len(objects))
    /\ NoLoop

\* sim.rs exec_iter_rec on the slice [c.lo, c.hi) of out_buffer: next is
\* compared with objects.len() and then used as an index into the slice;
\* split_at_mut panics when it is beyond the slice's length.
legacy_exec_iter_rec ==
    \E c \in calls :
        /\ c.fn = "exec_iter_rec"
        /\ pc = "force"
        /\ LET next == (c.idx + 1) * per_thread
           IN IF next >= Len(objects)
              THEN /\ tasks' = tasks \cup
                         {Task("iter_chunk", c.lo, c.hi, c.idx * per_thread)}
                   /\ calls' = calls \ {c}
                   /\ pc' = pc
              ELSE IF next > c.hi - c.lo
              THEN /\ pc' = "panicked"
                   /\ UNCHANGED <<calls, tasks>>
              ELSE /\ tasks' = tasks \cup
                         {Task("iter_chunk", c.lo, c.lo + next, c.idx * per_thread)}
                   /\ calls' = (calls \ {c}) \cup
                         {Call("exec_iter_rec", c.lo + next, c.hi, c.idx + 1)}
                   /\ pc' = pc
        /\ UNCHANGED <<objects, out_buffer, per_thread, delta, steps,
                       objects0, acc_done, applied, sim_vars, tree_vars>>

NextLegacy == legacy_exec_iter_rec

SpecLegacy == InitLegacy /\ [][NextLegacy]_vars

\* ================================================================ claims
ForceFns == {"exec_iter_rec", "iter_chunk"}
AddFns == {"add_acc_rec", "add_acc"}
\* The indices a call or a leaf task holds of the accumulator (and, for the
\* integration, of the bodies), and the bodies an iter_chunk task evaluates.
SlotRange(t) == t.lo .. (t.hi - 1)
BodyRange(t) == t.start .. (t.start + (t.hi - t.lo) - 1)
\* The calls and tasks of one fan-out that hold the index i.
Holders(fns, i) ==
    {c \in calls : c.fn \in fns /\ i \in SlotRange(c)}
        \cup {t \in tasks : t.fn \in fns /\ i \in SlotRange(t)}
FannedOut(fns) == \E x \in calls \cup tasks : x.fn \in fns

\* C1: in the force evaluation and in the integration, the slices handed
\* out are non-empty contiguous ranges, every index 0..n-1 is in exactly one
\* of them at every moment of the fan-out (so pairwise disjoint, union 0..n),
\* and an iter_chunk task evaluates exactly the bodies of its slice.
C1_DisjointCover ==
    /\ \A x \in calls \cup tasks : 0 <= x.lo /\ x.lo < x.hi /\ x.hi <= N
    /\ \A t \in tasks : t.fn = "iter_chunk" => BodyRange(t) = SlotRange(t)
    /\ \A fns \in {ForceFns, AddFns} :
          FannedOut(fns) => \A i \in 0..(N - 1) : Cardinality(Holders(fns, i)) = 1

\* Both fan-outs of one step done, over three chunks or chunks of two bodies.
C1_Witness ==
    /\ pc = "integrate"
    /\ Joined
    /\ \E t \in tasks : t.fn = "iter_chunk" /\ t.lo > 0 /\ t.hi - t.lo >= 2
    /\ \E t \in tasks : t.fn = "add_acc" /\ t.lo > 0 /\ t.hi - t.lo >= 2

ForceRunning ==
    \/ pc \in {"force", "build", "traverse"}
    \/ \E c \in calls : c.fn = "exec_iter_rec"
    \/ \E t \in tasks : t.fn = "iter_chunk" /\ ~Finished(t)
IntegrationStarted ==
    \/ \E c \in calls : c.fn = "add_acc_rec"
    \/ \E t \in tasks : t.fn = "add_acc"

\* C2: an integration call or leaf task exists only when the force
\* evaluation has ended (no exec_iter_rec pending, every iter_chunk task
\* finished, barnes_hut::iter through), and while the force evaluation runs
\* the bodies are those the step began with.
C2_Barrier ==
    /\ IntegrationStarted => ~ForceRunning
    /\ ForceRunning => objects = objects0

\* An integration task has updated a body after two or more force tasks ran.
C2_Witness ==
    /\ \E t \in tasks : t.fn = "add_acc" /\ t.k > 0
    /\ Cardinality({t \in tasks : t.fn = "iter_chunk"}) >= 2
    /\ objects # objects0

\* The interactions the Direct evaluator owes body i of n: every other body
\* once, in the order of the bodies.
RECURSIVE Others(_, _)
Others(i, n) ==
    IF n = 0 THEN <<>>
    ELSE IF n - 1 = i THEN Others(i, n - 1)
    ELSE Append(Others(i, n - 1), <<"body", n - 1>>)
\* The sum of get_acc_towards over a sequence of interactions with bodies.
RECURSIVE SumTerms(_, _, _, _)
SumTerms(objs, i, terms, k) ==
    IF k = 0 THEN ZeroVec
    ELSE get_acc_towards(objs[i + 1], objs[terms[k][2] + 1],
                         SumTerms(objs, i, terms, k - 1))
DirectAcc(objs, i) ==
    SumTerms(objs, i, Others(i, Len(objs)), Len(objs) - 1)

\* C3: when the Direct evaluator has run, out[i] is the sum of
\* get_acc_towards(body i, body j) over the bodies j # i, each added once.
C3_DirectSum ==
    (pc = "integrate" /\ ~use_barnes_hut) =>
        \A i \in 0..(N - 1) :
            /\ applied[i + 1] = Others(i, N)
            /\ acc_done[i + 1] = DirectAcc(objects0, i)

\* The Direct evaluator has run on four bodies and found an acceleration.
C3_Witness ==
    /\ pc = "integrate"
    /\ ~use_barnes_hut
    /\ N = 4
    /\ \E i \in 1..N : acc_done[i] # ZeroVec /\ Len(applied[i]) = 3
\* The bodies below a node of the tree.
RECURSIVE SubtreeBodies(_, _)
SubtreeBodies(ns, id) ==
    IF ns[id + 1].kind = "External" THEN {ns[id + 1].point}
    ELSE UNION { SubtreeBodies(ns, ns[id + 1].children[k]) :
                 k \in 1..Len(ns[id + 1].children) }
TreeBuilt == pc \in {"traverse", "returned"}
DistinctPositions ==
    \A i \in 1..N : \A j \in 1..N : i # j => objects[i].pos # objects[j].pos

\* Every body has mass: the tree has no node of mass 0, no NaN.
Massive == \A i \in 1..N : objects[i].mass > 0

\* C4: compute_acc leaves body i out of its own acceleration, for every theta:
\* no interaction of body i is with body i itself or with an Internal node,
\* taken as one body, whose subtree holds body i. Stated for bodies that
\* all have mass, where no NaN is involved.
C4_NoSelfInteraction ==
    Massive =>
        \A i \in 0..(N - 1) : \A k \in 1..Len(applied[i + 1]) :
            LET term == applied[i + 1][k]
            IN /\ term[1] = "body" => term[2] # i
               /\ term[1] = "node" => i \notin SubtreeBodies(nodes, term[2])

\* C5: with theta = 0 and the bodies at distinct positions, barnes_hut::iter
\* gives every body one interaction with every other body and none with a
\* node, and its output is the Direct evaluator's. Stated for bodies that
\* all have mass, where no NaN is involved.
C5_ThetaZeroIsDirect ==
    (pc = "returned" /\ theta = 0 /\ DistinctPositions /\ Massive) =>
        \A i \in 0..(N - 1) :
            /\ Len(applied[i + 1]) = N - 1
            /\ \A j \in 0..(N - 1) :
                  j # i => \E k \in 1..Len(applied[i + 1]) :
                               applied[i + 1][k] = <<"body", j>>
            /\ out_buffer[i + 1] = DirectAcc(objects, i)

RECURSIVE MassOf(_, _)
MassOf(objs, bodies) ==
    IF bodies = {} THEN 0
    ELSE LET b == CHOOSE x \in bodies : TRUE
         IN objs[b + 1].mass + MassOf(objs, bodies \ {b})

\* C6: in a built tree every Internal node's mass is the sum of the masses
\* of the bodies below it and of its children's masses, and its center_mass
\* is the mass-weighted mean of its children's centres of mass (to within the
\* rounding of the division).
C6_MassAggregation ==
    TreeBuilt =>
        \A id \in 0..(Len(nodes) - 1) :
            LET node == nodes[id + 1]
                s == SumChildren(nodes, objects, node.children, Len(node.children))
            IN node.kind = "Internal" =>
                  /\ node.mass = MassOf(objects, SubtreeBodies(nodes, id))
                  /\ node.mass = s.mass
                  /\ ~node.center_mass.nan
                  /\ LET d == VSub(VScale(node.center_mass, node.mass), s.cm)
                     IN /\ Abs(d.x) < node.mass
                        /\ Abs(d.y) < node.mass
                        /\ Abs(d.z) < node.mass

\* C7: bodies at one position become a leaf: construct_rec is never called,
\* below the root, on a group whose bodies all have the same position.
C7_CoincidentBecomeLeaf ==
    \A k \in 2..Len(stack) :
        \E p \in 1..Len(stack[k].points) : \E q \in 1..Len(stack[k].points) :
            objects[stack[k].points[p] + 1].pos # objects[stack[k].points[q] + 1].pos

\* A body's state after add_acc, from its state and the accumulated
\* acceleration before: vel' = vel + a * dt, pos' = pos + vel' * dt.
Stepped(before, after, a, dt) ==
    /\ after.vel = VAdd(before.vel, VScale(a, dt))
    /\ after.pos = VAdd(before.pos, VScale(after.vel, dt))
    /\ after.mass = before.mass

\* C8: a step updates every body i by vel' = vel + a_i * dt and then
\* pos' = pos + vel' * dt, a_i being the acceleration accumulated for i; a
\* body its add_acc task has not reached yet is as the step found it.
C8_SemiImplicitEuler ==
    /\ \A t \in tasks : t.fn = "add_acc" =>
          \A i \in SlotRange(t) :
              IF i < t.lo + t.k
              THEN Stepped(objects0[i + 1], objects[i + 1], acc_done[i + 1], delta)
              ELSE objects[i + 1] = objects0[i + 1]
    /\ (pc = "idle" /\ steps > 0) =>
          \A i \in 1..N : Stepped(objects0[i], objects[i], acc_done[i], delta)

\* A step with dt = 1 has moved a body that had a velocity and an acceleration.
C8_Witness ==
    /\ pc = "idle"
    /\ steps > 0
    /\ delta = 1
    /\ \E i \in 1..N :
          /\ ~acc_done[i].nan /\ acc_done[i] # ZeroVec
          /\ objects0[i].vel # ZeroVec
          /\ objects[i].pos # objects0[i].pos

\* C9: whenever exec_iter is not executing, every entry of out_buffer is zero.
C9_AccumulatorZero ==
    pc = "idle" => \A i \in 1..N : out_buffer[i] = ZeroVec

\* Two steps are over and the second filled the accumulator.
C9_Witness ==
    /\ pc = "idle"
    /\ steps >= 2
    /\ \E i \in 1..N : acc_done[i] # ZeroVec

\* C10: a step with dt = 0 leaves every body's position and velocity as it
\* found them.
C10_ZeroStepNoOp ==
    (pc = "idle" /\ steps > 0 /\ delta = 0) => objects = objects0
\* C11: ObjectBuffer::new on an empty body list stops at the assertion
\* n_objects > 0 of compute_target_threads: there is no pool, and no step
\* ever runs on an empty body array.
C11_EmptyFailsFast ==
    N = 0 =>
        /\ pc \in {"new", "assert_failed"}
        /\ pool = 0
        /\ steps = 0
        /\ calls = {} /\ tasks = {}

\* new has run on the empty list.
C11_Witness == N = 0 /\ pc = "assert_failed"
\* The number of bodies a split is made of, and whether it is complete.
SplitCount == CHOOSE n \in {x.hi : x \in calls \cup tasks} :
                  \A x \in calls \cup tasks : x.hi <= n
SplitDone == calls = {} /\ tasks # {}

C13_ThreadCountInvariant ==
    /\ \A i \in 0..(N - 1) :
          /\ Cardinality({t \in tasks : t.fn = "iter_chunk" /\ i \in SlotRange(t)}) <= 1
          /\ \E m \in 0..(N - 1) : applied[i + 1] = SubSeq(Others(i, N), 1, m)
    /\ pc = "integrate" =>
          \A i \in 0..(N - 1) :
              /\ applied[i + 1] = Others(i, N)
              /\ acc_done[i + 1] = DirectAcc(objects0, i)

\* The force evaluation of four bodies is over, each body in a chunk of its
\* own (a pool of 4 or 8 threads).
C13_Witness ==
    /\ pc = "integrate"
    /\ N = 4
    /\ per_thread = 1
    /\ Cardinality({t \in tasks : t.fn = "iter_chunk" /\ Finished(t)}) = 4
    /\ \E i \in 1..N : acc_done[i] # ZeroVec
\* C14: run_sim_loop reads the token only after a step has completed and
\* only at a check point (i % CHECK_INTERVAL = 0); it exits only after
\* reading the token as set; while a step runs the loop is inside exec_iter,
\* and every step that has begun is completed before the loop goes on.
C14_NoMidStepCancel ==
    /\ \A n \in read_ticks : n % CHECK_INTERVAL = 0 /\ n >= 1 /\ n <= steps
    /\ loop_pc = "exited" =>
          /\ last_read = "true"
          /\ tick \in read_ticks
          /\ token
    /\ pc # "idle" => loop_pc = "step"
    /\ loop_pc = "step" => steps = tick - 1
    /\ loop_pc \in {"top", "check", "exited"} =>
          /\ pc = "idle"
          /\ steps = tick
          /\ calls = {} /\ tasks = {}

\* The loop has exited at its second check point, having read the token as
\* unset at the first; the token was set while a step was running.
C14_Witness ==
    /\ loop_pc = "exited"
    /\ tick = 2 * CHECK_INTERVAL
    /\ read_ticks = {CHECK_INTERVAL, 2 * CHECK_INTERVAL}
\* No body has mass.
Massless == \A i \in 1..N : objects[i].mass = 0

\* C15: when every body has mass 0, the acceleration a force evaluation
\* (Direct or Barnes-Hut) has written for every body is exactly zero, and
\* no undefined value.
C15_MasslessZeroAcc ==
    (pc = "integrate" /\ Massless) =>
        \A i \in 1..N : ~acc_done[i].nan /\ acc_done[i] = ZeroVec
\* C16: for two bodies at exactly the same position get_acc_towards adds
\* exactly the zero vector to *out: *out is what it was, and not undefined.
C16_CoincidentPairZero ==
    (pc \in {"paired", "paired_legacy"} /\ objects[1].pos = objects[2].pos) =>
        /\ ~out_buffer[1].nan
        /\ out_buffer[1] = acc_done[1]
\* C17: adding massless bodies, at positions of their own, to a scene does
\* not change the acceleration the Barnes-Hut evaluator computes for a body
\* of the scene that has mass, whatever theta: the second evaluation has
\* written for it what the first did.
C17_MasslessDoNotPerturb ==
    (pc = "traverse" /\ IterDone /\ steps = 1) =>
        \A i \in 1..Len(acc_done) :
            objects[i].mass > 0 => out_buffer[i] = acc_done[i]

\* The construct_rec calls in progress, as node ids.
Building == { stack[k].node : k \in 1..Len(stack) }

\* The Internal node id holds the aggregate of the children it has now.
Aggregated(id) ==
    LET node == nodes[id + 1]
        s == SumChildren(nodes, objects, node.children, Len(node.children))
    IN /\ node.mass = s.mass
       /\ node.center_mass = VDiv(s.cm, s.mass)

\* The Internal node id holds what new_internal made it with.
Placeholder(id) == nodes[id + 1].mass = 0 /\ nodes[id + 1].center_mass = ZeroVec

\* C18: in a Barnes-Hut force evaluation no traversal starts before
\* FmmTree::new has returned: while the tree is built no body has a term and
\* no traversal has a position.  An Internal node keeps its placeholder
\* aggregate while its construct_rec call is in progress and holds the
\* aggregate of its children, each of them built and aggregated, from the
\* moment the call returns; so when the traversals run no construct_rec call
\* is in progress and every Internal node is aggregated.
C18_BuildBeforeTraverse ==
    /\ pc = "build" =>
          /\ trav = NoTrav
          /\ applied = NoTerms(N)
          /\ out_buffer = acc_done
    /\ \A k \in 1..Len(nodes) :
          nodes[k].kind = "Internal" =>
             IF k - 1 \in Building
             THEN pc = "build" /\ Placeholder(k - 1)
             ELSE /\ Aggregated(k - 1)
                  /\ \A c \in 1..Len(nodes[k].children) :
                        nodes[k].children[c] \notin Building
    /\ pc \in {"traverse", "returned"} => stack = <<>>

\* Every traversal is over, and one of them took an Internal node below the
\* root, built and aggregated, as one body.
C18_Witness ==
    /\ pc = "returned"
    /\ \E i \in 1..N : \E t \in 1..Len(applied[i]) :
          /\ applied[i][t][1] = "node"
          /\ applied[i][t][2] > 0
          /\ nodes[applied[i][t][2] + 1].mass > 0
          /\ Len(nodes[applied[i][t][2] + 1].children) > 1

\* The masses of the bodies, by index.
Masses(objs) == [i \in 1..Len(objs) |-> objs[i].mass]

\* C19: a step changes only positions and velocities.  At every moment the
\* accumulator has one entry per body, and no step of the program, in any
\* number of exec_iter calls with either evaluator, changes the number of
\* bodies or the mass found at an index: a body stays at its index with its
\* mass.
C19_OnlyPosVelChange ==
    /\ [](Len(out_buffer) = Len(objects))
    /\ [][/\ Len(objects') = Len(objects)
          /\ Masses(objects') = Masses(objects)
          /\ Len(out_buffer') = Len(out_buffer)]_vars

\* MaxSteps steps have been made on MaxBodies bodies of different masses,
\* and the last of them moved a body and changed a velocity.
C19_Witness ==
    /\ pc = "idle"
    /\ steps = MaxSteps
    /\ N = MaxBodies
    /\ Len(out_buffer) = MaxBodies
    /\ \E i, j \in 1..N : objects[i].mass # objects[j].mass
    /\ \E i \in 1..N : objects[i].pos # objects0[i].pos
    /\ \E i \in 1..N : objects[i].vel # objects0[i].vel
    /\ Masses(objects) = Masses(objects0)

\* The octants of a region that hold a point, and the External leaves of a body.
OctantsOf(region, point) == { o \in 0..7 : contains(Octant(region, o), point) }
Leaves(id) ==
    { k \in 1..Len(nodes) : nodes[k].kind = "External" /\ nodes[k].point = id }

\* C20: with the bodies at pairwise distinct positions, construct_rec finds
\* every point of a node in exactly one of the node's eight octants, and in
\* the finished tree every body is the point of exactly one External leaf.
C20_OneOctantOneLeaf ==
    DistinctPositions =>
       /\ \A k \in 1..Len(stack) :
             \A p \in 1..Len(stack[k].points) :
                Cardinality(OctantsOf(nodes[stack[k].node + 1].region,
                                      objects[stack[k].points[p] + 1].pos)) = 1
       /\ TreeBuilt => \A i \in 0..(N - 1) : Cardinality(Leaves(i)) = 1

\* The least and the greatest coordinate of the bodies on an axis.
MinOver(objs, axis) ==
    CHOOSE m \in { objs[i].pos[axis] : i \in 1..Len(objs) } :
        \A i \in 1..Len(objs) : m <= objs[i].pos[axis]
MaxOver(objs, axis) ==
    CHOOSE m \in { objs[i].pos[axis] : i \in 1..Len(objs) } :
        \A i \in 1..Len(objs) : m >= objs[i].pos[axis]

\* The bounds of the bodies, each extended by the padding once.
PaddedBounds(objs) ==
    Region((MinOver(objs, "x") - PAD) * SUB, (MaxOver(objs, "x") + PAD) * SUB,
           (MinOver(objs, "y") - PAD) * SUB, (MaxOver(objs, "y") + PAD) * SUB,
           (MinOver(objs, "z") - PAD) * SUB, (MaxOver(objs, "z") + PAD) * SUB)

\* C21: the root region build_tree makes is, on each axis, the minimum and the
\* maximum over the body positions extended by one fixed padding, whatever
\* the number of bodies, and it contains every body position.
C21_RootIsPaddedBounds ==
    (pc = "build" /\ N > 0 /\ \A i \in 1..N : ~objects[i].pos.nan) =>
       /\ nodes[1].region = PaddedBounds(objects)
       /\ \A i \in 1..N : contains(nodes[1].region, objects[i].pos)

\* The leaf chunks a call on [lo, hi) ends in, and the least d with 2^d >= t.
Chunks(lo, hi) == DivCeil(hi - lo, per_thread)
RECURSIVE CeilLog2(_)
CeilLog2(t) == IF t <= 1 THEN 0 ELSE 1 + CeilLog2((t + 1) \div 2)

\* C22: the fan-out is a balanced binary split.  A call made by a fork (its
\* idx is the number of forks above it) is joined with a branch of one leaf
\* chunk, so it covers at most two chunks itself; and no call or leaf lies
\* deeper than ceil(log2 t) forks, t the number of leaf chunks of the split.
C22_BalancedSplit ==
    /\ \A c \in calls :
          c.idx > 0 => /\ Chunks(c.lo, c.hi) <= 2
                       /\ c.idx <= CeilLog2(Chunks(0, SplitCount))
    /\ \A t \in tasks :
          t.start \div per_thread <= CeilLog2(Chunks(0, SplitCount))

\* C23: in the legacy exec_iter of sim.rs, for every body count n > 0,
\* exec_iter_rec never splits the accumulator slice beyond its length; every
\* iter_chunk gets as start the absolute index of the first slot of its
\* slice; the slices are pairwise disjoint and, the fan-out complete, cover
\* 0..n.
C23_LegacySplitInBounds ==
    /\ pc # "panicked"
    /\ \A t \in tasks : t.hi > t.lo => t.start = t.lo
    /\ \A t \in tasks : \A u \in tasks :
          t # u => (t.hi <= u.lo \/ u.hi <= t.lo)
    /\ calls = {} =>
          \A i \in 0..(N - 1) : \E t \in tasks : t.lo <= i /\ i < t.hi

\* C24: the exchange is a request and its response.  should_store returns
\* true only when sample has been called since the last should_store that
\* returned true, or none has yet: a call that returns true finds no such
\* call unanswered, so at any moment at most one has returned true since the
\* last sample, and a request that is pending (should_sample set) has had none.
C24_OneStorePerRequest ==
    /\ [](since <= 1)
    /\ [](should_sample => since = 0)
    /\ [][(loop_pc = "check" /\ loop_pc' = "store") => since = 0]_vars

\* The loop stores for the second time, at its second check point: the
\* first store is in the exchange and the graphics thread has sampled since.
C24_Witness ==
    /\ loop_pc = "store"
    /\ tick = 2 * CHECK_INTERVAL
    /\ since = 1
    /\ \A i \in 1..Len(sample_data) : sample_data[i].at = CHECK_INTERVAL
    /\ got = sample_data

\* C25: shutdown is live.  main sets the token once the graphics have ended,
\* so that sample is no longer called; from then on run_sim_loop goes through
\* at most one check point without exiting (one that stores), exits at the
\* next, and so exits: at the latest at the second check point after the
\* token was set.  (A token set before the first check point leaves room for
\* both within MaxTicks.)
C25_ShutdownIsLive ==
    /\ [](passed <= 1)
    /\ [][(token /\ loop_pc = "check" /\ CheckPoint(tick) /\ passed = 1)
             => loop_pc' = "exited"]_vars
    /\ (token /\ tick < CHECK_INTERVAL) ~> (loop_pc = "exited")

\* The loop has exited at the second check point after the token was set,
\* having stored a sample at the first.
C25_Witness ==
    /\ loop_pc = "exited"
    /\ passed = 1
    /\ tick = 2 * CHECK_INTERVAL
    /\ read_ticks = {2 * CHECK_INTERVAL}
    /\ \A i \in 1..Len(sample_data) : sample_data[i].at = CHECK_INTERVAL

\* The check points run_sim_loop has gone through.
ChecksDone ==
    { n \in 1..tick : CheckPoint(n) /\ (n < tick \/ loop_pc \notin {"step", "check"}) }

\* C26: run_sim_loop reads the token at every check point, and a check point
\* reached with the token set is where the loop exits, whatever the state of
\* the sample exchange: no check point is gone through without a read of the
\* token, and none with the token set.
C26_ExitAtCheckPoint ==
    /\ \A n \in ChecksDone : n \in read_ticks
    /\ passed = 0

\* C27: every batch sample() hands to the renderer is a consistent snapshot:
\* all its positions were written by one store() call, made after one
\* completed step at a check point, and are the positions of all the bodies
\* after that step; no batch mixes two stores.
C27_ConsistentSnapshot ==
    got # <<>> =>
        \E n \in 1..tick :
            /\ CheckPoint(n)
            /\ Len(got) = Len(objects)
            /\ \A i \in 1..Len(got) : got[i].at = n /\ got[i].pos = Stored(objects, i)

\* C28: the tick current_ticks() reports belongs to the sample the exchange
\* holds: while the render thread holds the sample lock the tick is the step
\* at which the positions under the lock were stored, and the tick read right
\* after sample() is the step at which the batch just read was stored; the
\* tick is a multiple of CHECK_INTERVAL and never ahead of the steps done.
C28_TickBelongsToSample ==
    /\ lock = "render" =>
           \A i \in 1..Len(sample_data) : sample_data[i].at = simulation_tick
    /\ (render_pc = "idle" /\ seen_tick >= 0) =>
           \A i \in 1..Len(got) : got[i].at = seen_tick
    /\ CheckPoint(simulation_tick)
    /\ simulation_tick <= tick

\* ------------------------------------------------- KeyTrigger and set_focus

solver_vars == <<objects, out_buffer, per_thread, pc, delta, calls, tasks, steps,
                 build_vars, tree_vars, objects0, acc_done, applied, loop_vars,
                 exchange_vars>>

\* KeyTrigger::event as if the trigger followed the level of the key.
EventLevel(s, is_pressed) ==
    [pressed |-> is_pressed, trigger |-> s.trigger \/ is_pressed]

\* KeyTrigger::event(is_pressed): the match on (self.pressed, is_pressed).
Event(s, is_pressed) ==
    CASE s.pressed /\ is_pressed -> s
      [] s.pressed /\ ~is_pressed -> [s EXCEPT !.pressed = FALSE]
      [] ~s.pressed /\ is_pressed -> [pressed |-> TRUE, trigger |-> TRUE]
      [] OTHER -> s

\* KeyTrigger::get_trigger: what it returns and what it leaves.
GetTrigger(s) == [ret |-> s.trigger, key |-> [s EXCEPT !.trigger = FALSE]]

\* i64::rem_euclid for a positive divisor.
RemEuclid(a, n) == ((a % n) + n) % n

\* The history of get_trigger calls on the keys ks.
Fired(ks) ==
    [k \in Keys |-> IF k \in ks /\ GetTrigger(keyboard_state[k]).ret /\ fired[k] <= MaxPresses
                    THEN fired[k] + 1 ELSE fired[k]]

\* The window has run for a scene of 1..MaxFocus bodies; no step is in
\* progress.
InitKeys ==
    /\ \E n \in 1..MaxFocus : objects = [i \in 1..n |-> BodyPool[1]]
    /\ out_buffer = Zeroes(Len(objects))
    /\ per_thread = DivCeil(Len(objects), compute_target_threads(Len(objects)))
    /\ pool = compute_target_threads(Len(objects))
    /\ pc = "idle"
    /\ delta = 0
    /\ calls = {}
    /\ tasks = {}
    /\ steps = 0
    /\ use_barnes_hut = FALSE
    /\ mantissa = 0
    /\ theta = EXEC_ITER_THETA
    /\ nodes = <<>>
    /\ stack = <<>>
    /\ trav = NoTrav
    /\ objects0 = objects
    /\ acc_done = out_buffer
    /\ applied = NoTerms(Len(objects))
    /\ loop_pc = "none"
    /\ tick = 0
    /\ token = FALSE
    /\ should_sample = TRUE
    /\ last_read = "none"
    /\ read_ticks = {}
    /\ NewBatch(Len(objects))
    /\ NewGraphics
    /\ NewCache(Len(objects))

\* A KeyboardInput for one of the keys: keyboard_state.<key>.event(is_pressed).
event ==
    \E k \in Keys, is_pressed \in BOOLEAN :
        /\ (is_pressed /\ ~held[k]) => presses[k] < MaxPresses
        /\ keyboard_state' = [keyboard_state EXCEPT ![k] = Event(@, is_pressed)]
        /\ held' = [held EXCEPT ![k] = is_pressed]
        /\ presses' = [presses EXCEPT ![k] = IF is_pressed /\ ~held[k] THEN @ + 1 ELSE @]
        /\ UNCHANGED <<focus, fired, solver_vars, cache_vars>>

\* Camera::set_focus in a redraw: get_trigger of f, g and h in turn.
set_focus ==
    LET n == num_objects
        f == GetTrigger(keyboard_state["f"])
        g == GetTrigger(keyboard_state["g"])
        h == GetTrigger(keyboard_state["h"])
        after_f == IF f.ret
                   THEN RemEuclid((IF focus < 0 THEN 1 ELSE focus) - 1, n)
                   ELSE focus
        after_g == IF g.ret
                   THEN RemEuclid((IF after_f < 0 THEN 0 - 1 ELSE after_f) + 1, n)
                   ELSE after_f
    IN /\ focus' = IF h.ret THEN 0 - 1 ELSE after_g
       /\ keyboard_state' = [keyboard_state EXCEPT !["f"] = f.key, !["g"] = g.key,
                                                   !["h"] = h.key]
       /\ fired' = Fired({"f", "g", "h"})
       /\ UNCHANGED <<held, presses, solver_vars, cache_vars>>

NextKeys ==
    \/ event
    \/ set_focus

SpecKeys == InitKeys /\ [][NextKeys]_vars

\* C29: KeyTrigger is edge-triggered: get_trigger returns true at most once
\* per released-to-pressed transition of its key (a pending trigger counts as
\* one still to come); no step taken while the key stays held sets the
\* trigger, a release leaves a pending trigger as it is, and a get_trigger
\* that returns true leaves the trigger cleared.
C29_EdgeTriggered ==
    /\ [](\A k \in Keys :
             fired[k] + (IF keyboard_state[k].trigger THEN 1 ELSE 0) <= presses[k])
    /\ [][\A k \in Keys :
             /\ (held[k] /\ held'[k]) =>
                    (keyboard_state'[k].trigger => keyboard_state[k].trigger)
             /\ (held[k] /\ ~held'[k]) =>
                    keyboard_state'[k].trigger = keyboard_state[k].trigger
             /\ fired'[k] > fired[k] =>
                    (keyboard_state[k].trigger /\ ~keyboard_state'[k].trigger)]_vars

\* f has been pressed twice and has moved the focus twice, from None to 0 and
\* back around to the last of three objects, and is still held; g has been
\* pressed and released and its trigger is still pending.
C29_Witness ==
    /\ Len(objects) = 3
    /\ presses["f"] = 2 /\ fired["f"] = 2 /\ held["f"] /\ ~keyboard_state["f"].trigger
    /\ focus = 2
    /\ presses["g"] = 1 /\ ~held["g"] /\ keyboard_state["g"].trigger /\ fired["g"] = 0

\* -------------------------------------------------------- ObjectVertexCache
RECURSIVE PushPoints(_, _, _)

\* ObjectVertexCache::inc_circular(head, tail, len).
inc_circular(h, t, len) ==
    LET t2 == (t + 1) % len
    IN [head |-> IF t2 = h THEN (h + 1) % len ELSE h, tail |-> t2]

\* push_items' loop from the i-th point of the batch on; c holds buff,
\* pending_head and pending_tail.
PushPoints(c, batch, i) ==
    IF i > Len(batch) THEN c
    ELSE LET p == inc_circular(c.pending_head, c.pending_tail,
                               TRAIL_MAX_LENGTH * num_objects)
         IN PushPoints([buff |-> [c.buff EXCEPT ![c.pending_tail + 1] =
                                      [pos |-> batch[i], idx |-> tail]],
                        pending_head |-> p.head,
                        pending_tail |-> p.tail],
                       batch, i + 1)

\* position_of without its wrap-around branch.
IndexNoWrap(idx) == idx - num_objects + pending_tail

\* position_of(idx): the index it reads buff at.
vertex_idx(idx) ==
    LET vertex_idx_raw == idx - num_objects + pending_tail
    IN IF vertex_idx_raw < 0
       THEN TRAIL_MAX_LENGTH * num_objects + vertex_idx_raw
       ELSE vertex_idx_raw

position_of(idx) == buff[vertex_idx(idx) + 1].pos

\* The slots flush_to_buffer copies to the vertex Buffer.
Pending(k) ==
    CASE pending_tail < pending_head -> k >= pending_head \/ k < pending_tail
      [] pending_tail = pending_head -> FALSE
      [] OTHER -> pending_head <= k /\ k < pending_tail

\* Objects::push_items(batch) with the next batch of the simulation: the
\* point of object i in the p-th batch is <<p, i>>.
push_items ==
    /\ pushes < MaxPushes
    /\ LET batch == [i \in 1..num_objects |-> <<pushes + 1, i>>]
           c == PushPoints([buff |-> buff, pending_head |-> pending_head,
                            pending_tail |-> pending_tail], batch, 1)
           r == inc_circular(head, tail, TRAIL_MAX_LENGTH)
       IN /\ buff' = c.buff
          /\ pending_head' = c.pending_head
          /\ pending_tail' = c.pending_tail
          /\ head' = r.head
          /\ tail' = r.tail
          /\ pushes' = pushes + 1
          /\ last_batch' = batch
    /\ UNCHANGED <<num_objects, gpu_buffer, keyboard_state, focus, held, presses,
                   fired, solver_vars>>

\* Objects::flush_to_buffer(buffer, queue).
flush_to_buffer ==
    /\ gpu_buffer' = [k \in 1..Len(gpu_buffer) |->
                         IF Pending(k - 1) THEN buff[k] ELSE gpu_buffer[k]]
    /\ pending_head' = pending_tail
    /\ UNCHANGED <<buff, num_objects, head, tail, pending_tail, pushes, last_batch,
                   keyboard_state, focus, held, presses, fired, solver_vars>>

\* Objects::clear(), called by a redraw that finds space triggered.
clear ==
    /\ head' = 0
    /\ tail' = 0
    /\ pending_head' = 0
    /\ pending_tail' = 0
    /\ last_batch' = <<>>
    /\ UNCHANGED <<buff, num_objects, gpu_buffer, pushes, keyboard_state, focus,
                   held, presses, fired, solver_vars>>

NextCache ==
    \/ push_items
    \/ flush_to_buffer
    \/ clear

SpecCache == InitKeys /\ [][NextCache]_vars

\* C30: after any sequence of push_items, flush_to_buffer and clear calls in
\* which a push_items followed the last clear, position_of(idx) of every
\* idx < num_objects reads inside buff and returns the position of object
\* idx in the batch pushed last, also right after the trail has wrapped
\* (pending_tail = 0).
C30_PositionOfLastBatch ==
    last_batch # <<>> =>
        \A idx \in 0..(num_objects - 1) :
            /\ vertex_idx(idx) \in 0..(Len(buff) - 1)
            /\ position_of(idx) = last_batch[idx + 1]

\* The trail of two objects has wrapped for the second time: the batch
\* pushed last lies in the last slots of buff and position_of finds it.
C30_Witness ==
    /\ num_objects = 2
    /\ pushes = 2 * TRAIL_MAX_LENGTH
    /\ pending_tail = 0
    /\ last_batch = <<<<pushes, 1>>, <<pushes, 2>>>>
    /\ vertex_idx(1) = Len(buff) - 1
    /\ position_of(1) = <<pushes, 2>>

====
